---- MODULE Spec2Model ----
(***************************************************************************)
(* Signaling relay of the screen-sharing server: the room store (rooms),   *)
(* the per-socket session (socket.roomCode, socket.username), the          *)
(* Socket.IO rooms each socket has joined, and the events each handler     *)
(* emits.  The repository holds two variants of the server:                *)
(* src/server.js ("server") and src/unnamed/part_000 ("part000").          *)
(*                                                                         *)
(* Spec      the room management handlers (connection, create-room,        *)
(*           join-room, disconnect), the only ones that assign rooms,      *)
(*           socket.roomCode, socket.username or call socket.join.         *)
(* SpecRelay all handlers, room management restricted to one room code.    *)
(* SpecChat  room management on one room code with empty and non-empty     *)
(*           display names, and send-chat-message.                         *)
(* SpecPayload room management on one room code and the unicast handlers,  *)
(*           with payloads that lack a field or are missing altogether.    *)
(***************************************************************************)
EXTENDS Integers, Sequences, FiniteSets, TLC

\* ---------------------------------------------------------------- bounds
\* Longest member list a join-room may still push onto.
MaxMembers == 3

\* ------------------------------------------------------------ value sets
Variants  == {"server", "part000"}
\* socket.id values; one socket per id, ids are never reused
SocketIds == {"s1", "s2", "s3"}
\* values nanoid(6) returns
Codes     == {"AAAAAA", "BBBBBB"}
\* the one value nanoid(6) returns under SpecRelay
RelayCodes == {"AAAAAA"}
\* names of properties every plain object inherits from Object.prototype
ProtoKeys == {"constructor"}
\* display names a client sends
Names     == {"ann"}
\* an opaque offer / answer / candidate / chat message
Payloads  == {"p"}
\* the JavaScript value undefined
Undefined == "<undefined>"
\* roomCode values a client may send with join-room
JoinCodes == Codes \cup ProtoKeys
\* targetId / requesterId / toId values a client may send under SpecRelay
TargetIds == SocketIds \cup RelayCodes
\* fromId values a client may send with webrtc-offer
FromIds   == SocketIds
\* username values a client sends under SpecPayload: a name, and a payload
\* without the field
PayloadNames == {"ann", Undefined}
\* the body of an event that was sent without a payload object
Missing == "<no payload>"
\* the events whose handler destructures its payload parameter
PayloadOps ==
    {"create-room", "join-room", "request-share", "reject-share",
     "request-control", "accept-control", "reject-control", "webrtc-offer",
     "webrtc-answer", "webrtc-candidate", "stop-sharing",
     "send-chat-message"}
\* username values a client sends under SpecChat: empty, non-empty, and
\* a payload without the field
ChatNames == {"", "ann", Undefined}

VARIABLES
    variant,   \* which source file runs
    rooms,     \* const rooms = {}: room code -> sequence of {id, username}
    sockets,   \* per socket: status, socket.roomCode, socket.username
    joined,    \* Socket.IO rooms (socket.join) each connected socket is in
    out,       \* the emissions of the handler that just ran, in order
    last,      \* the inbound event that handler served: sender and payload
    crashed    \* a handler threw: the uncaught exception ended the process

vars == <<variant, rooms, sockets, joined, out, last, crashed>>

\* ------------------------------------------------------------- helpers
Truthy(v) == v # Undefined /\ v # ""

User(id, username) == [id |-> id, username |-> username]

\* a payload without a member list; as the payload of update-user-list it
\* is the value undefined (an array of the store is never empty)
NoList == << >>

\* an emitted event: name, the Socket.IO room (or socket id) addressed, the
\* sockets that receive it, and the payload
Emit(ev, room, to, id, name, code, list, body) ==
    [ev |-> ev, room |-> room, to |-> to, id |-> id, name |-> name,
     code |-> code, list |-> list, body |-> body]

\* an inbound event: handler, sending socket and payload fields
Event(op, by, code, name, target, from, body) ==
    [op |-> op, by |-> by, code |-> code, name |-> name, target |-> target,
     from |-> from, body |-> body]

NoEvent == Event("none", Undefined, Undefined, Undefined, Undefined,
                 Undefined, Undefined)

Open(s) == sockets[s].status = "open"

\* the event loop is between two handlers
Idle == ~crashed /\ last.op = "none"

\* what is left of a socket once Socket.IO has dropped it
Gone == [status |-> "closed", roomCode |-> Undefined, username |-> Undefined]

\* io.to(room): every connected socket that is in the Socket.IO room
IoTo(jn, room) == {s \in SocketIds : room \in jn[s]}

\* socket.to(room): the same, without the sender
SocketTo(jn, room, sender) == IoTo(jn, room) \ {sender}

\* io.sockets.sockets.get(id): the connected socket with that id, if any
SocketsGet(id) == {s \in SocketIds : s = id /\ Open(s)}

\* rooms[roomCode] evaluated as a condition: an own entry is an array
\* (truthy), an inherited Object.prototype property is truthy as well
RoomsTruthy(rms, roomCode) == roomCode \in DOMAIN rms \/ roomCode \in ProtoKeys

\* rooms[roomCode] read as a payload
RoomsGet(rms, roomCode) ==
    IF roomCode \in DOMAIN rms THEN rms[roomCode] ELSE NoList

\* rooms[roomCode] = list
RoomsPut(rms, roomCode, list) ==
    [r \in DOMAIN rms \cup {roomCode} |-> IF r = roomCode THEN list ELSE rms[r]]

\* delete rooms[roomCode]
RoomsDelete(rms, roomCode) == [r \in DOMAIN rms \ {roomCode} |-> rms[r]]

\* rooms[roomCode].filter(user => user.id !== id)
FilterOut(list, id) ==
    LET Keep(u) == u.id # id IN SelectSeq(list, Keep)

\* rooms[roomCode].find(user => user.id === id)
Find(list, id) ==
    LET Is(u) == u.id = id
        hits == SelectSeq(list, Is)
    IN  IF hits = << >> THEN User(Undefined, Undefined) ELSE Head(hits)

\* a push that puts the new member in front
PushFront(list, user) == <<user>> \o list

\* rooms[roomCode].push(user)
Push(list, user) == Append(list, user)

\* a cleanup that stores the filtered list and never deletes the entry
RoomsLeaveKeepEmpty(rms, roomCode, id) ==
    RoomsPut(rms, roomCode, FilterOut(rms[roomCode], id))

\* the disconnect handler's update of the store: the filtered list is
\* stored, and the entry is deleted when that list is empty
RoomsLeave(rms, roomCode, id) ==
    IF Len(FilterOut(rms[roomCode], id)) = 0
    THEN RoomsDelete(rms, roomCode)
    ELSE RoomsPut(rms, roomCode, FilterOut(rms[roomCode], id))

\* ids of a member list
Ids(list) == {list[i].id : i \in 1..Len(list)}

\* ---------------------------------------------------------------- Init
Init ==
    /\ variant \in Variants
    /\ rooms = << >>
    /\ sockets = [s \in SocketIds |->
                    [status |-> "fresh", roomCode |-> Undefined,
                     username |-> Undefined]]
    /\ joined = [s \in SocketIds |-> {}]
    /\ out = << >>
    /\ last = NoEvent
    /\ crashed = FALSE

\* ----------------------------------------------------- room management
\* io.on('connection'): the socket exists and is in the room of its own id
Connection(s) ==
    /\ Idle
    /\ sockets[s].status = "fresh"
    /\ sockets' = [sockets EXCEPT ![s].status = "open"]
    /\ joined' = [joined EXCEPT ![s] = {s}]
    /\ out' = << >>
    /\ last' = Event("connection", s, Undefined, Undefined, Undefined,
                     Undefined, Undefined)
    /\ UNCHANGED <<variant, rooms, crashed>>

\* socket.on('create-room'); roomCode is what nanoid(6) returned
CreateRoom(s, username, roomCode) ==
    /\ Idle
    /\ Open(s)
    /\ rooms' = RoomsPut(rooms, roomCode, <<User(s, username)>>)
    /\ joined' = [joined EXCEPT ![s] = @ \cup {roomCode}]
    /\ sockets' = [sockets EXCEPT ![s].roomCode = roomCode,
                                  ![s].username = username]
    /\ out' = << Emit("room-created", s, {s}, Undefined, Undefined, roomCode,
                      NoList, Undefined),
                 Emit("update-user-list", roomCode, IoTo(joined', roomCode),
                      Undefined, Undefined, Undefined, rooms'[roomCode],
                      Undefined) >>
    /\ last' = Event("create-room", s, roomCode, username, Undefined,
                     Undefined, Undefined)
    /\ UNCHANGED <<variant, crashed>>

\* the emissions of a successful join-room, in the order of the source; jn
\* and rms are the Socket.IO rooms and the store after the join
JoinEmits(v, jn, rms, s, roomCode, username) ==
    (IF v = "server"
     THEN << Emit("user-joined", roomCode, SocketTo(jn, roomCode, s), s,
                  username, Undefined, NoList, Undefined) >>
     ELSE << >>)
    \o << Emit("joined-room", s, {s}, Undefined, Undefined, roomCode, NoList,
               Undefined),
          Emit("update-user-list", roomCode, IoTo(jn, roomCode), Undefined,
               Undefined, Undefined, rms[roomCode], Undefined) >>

\* socket.on('join-room')
JoinRoom(s, roomCode, username) ==
    /\ Idle
    /\ Open(s)
    /\ roomCode \in DOMAIN rooms => Len(rooms[roomCode]) < MaxMembers
    /\ last' = Event("join-room", s, roomCode, username, Undefined,
                     Undefined, Undefined)
    /\ IF RoomsTruthy(rooms, roomCode)
       THEN IF roomCode \in DOMAIN rooms
            THEN /\ rooms' = RoomsPut(rooms, roomCode,
                                Push(rooms[roomCode], User(s, username)))
                 /\ joined' = [joined EXCEPT ![s] = @ \cup {roomCode}]
                 /\ sockets' = [sockets EXCEPT ![s].roomCode = roomCode,
                                               ![s].username = username]
                 /\ out' = JoinEmits(variant, joined', rooms', s, roomCode,
                                     username)
                 /\ UNCHANGED crashed
            ELSE \* an inherited property has no push: TypeError
                 /\ crashed' = TRUE
                 /\ out' = << >>
                 /\ UNCHANGED <<rooms, joined, sockets>>
       ELSE /\ out' = << Emit("join-error", s, {s}, Undefined, Undefined,
                              Undefined, NoList, "Invalid room code.") >>
            /\ UNCHANGED <<rooms, joined, sockets, crashed>>
    /\ UNCHANGED variant

\* the emissions of the disconnect handler; jn is the Socket.IO rooms after
\* the socket left, remaining the filtered member list
DisconnectEmits(v, jn, remaining, s, roomCode, disconnectedUser) ==
    (IF disconnectedUser.id # Undefined
     THEN IF v = "server"
          THEN << Emit("user-left", roomCode, SocketTo(jn, roomCode, s),
                       disconnectedUser.id, disconnectedUser.username,
                       Undefined, NoList, Undefined) >>
          ELSE << Emit("new-chat-message", roomCode, IoTo(jn, roomCode),
                       Undefined, "System", Undefined, NoList,
                       disconnectedUser.username) >>
     ELSE << >>)
    \o
    (IF Len(remaining) = 0
     THEN << >>
     ELSE << Emit("update-user-list", roomCode, IoTo(jn, roomCode),
                  Undefined, Undefined, Undefined, remaining, Undefined),
             Emit("share-stopped", roomCode, IoTo(jn, roomCode), Undefined,
                  Undefined, Undefined, NoList, Undefined) >>)

\* socket.on('disconnect'): Socket.IO has taken the socket out of all its
\* rooms and out of io.sockets.sockets before the handler runs
Disconnect(s) ==
    /\ Idle
    /\ Open(s)
    /\ sockets' = [sockets EXCEPT ![s] = Gone]
    /\ joined' = [joined EXCEPT ![s] = {}]
    /\ last' = Event("disconnect", s, Undefined, Undefined, Undefined,
                     Undefined, Undefined)
    /\ LET roomCode == sockets[s].roomCode IN
       IF Truthy(roomCode) /\ RoomsTruthy(rooms, roomCode)
       THEN /\ rooms' = RoomsLeave(rooms, roomCode, s)
            /\ out' = DisconnectEmits(variant, joined',
                                      FilterOut(rooms[roomCode], s), s,
                                      roomCode, Find(rooms[roomCode], s))
       ELSE /\ out' = << >>
            /\ UNCHANGED rooms
    /\ UNCHANGED <<variant, crashed>>

\* the handler has returned and its packets are with the transport: the
\* event loop takes the next event
Settle ==
    /\ ~crashed
    /\ last.op # "none"
    /\ out' = << >>
    /\ last' = NoEvent
    /\ UNCHANGED <<variant, rooms, sockets, joined, crashed>>

\* ---------------------------------------------------------------- relay
\* a relay handler that also takes the sender out of its room
RelayLeavesRoom(op, s, code, target, from, body, emits) ==
    /\ Idle
    /\ Open(s)
    /\ out' = emits
    /\ last' = Event(op, s, code, Undefined, target, from, body)
    /\ sockets' = [sockets EXCEPT ![s].roomCode = Undefined]
    /\ UNCHANGED <<variant, rooms, joined, crashed>>

\* a relay handler: nothing but emissions
Relay(op, s, code, target, from, body, emits) ==
    /\ Idle
    /\ Open(s)
    /\ out' = emits
    /\ last' = Event(op, s, code, Undefined, target, from, body)
    /\ UNCHANGED <<variant, rooms, sockets, joined, crashed>>

\* socket.on('request-share')
RequestShare(s, targetId) ==
    Relay("request-share", s, Undefined, targetId, Undefined, Undefined,
          << Emit("share-request-received", targetId, IoTo(joined, targetId),
                  s, sockets[s].username, Undefined, NoList, Undefined) >>)

\* socket.on('reject-share')
RejectShare(s, requesterId) ==
    Relay("reject-share", s, Undefined, requesterId, Undefined, Undefined,
          IF SocketsGet(requesterId) # {}
          THEN << Emit("share-rejected", requesterId, SocketsGet(requesterId),
                       s, sockets[s].username, Undefined, NoList,
                       Undefined) >>
          ELSE << >>)

\* socket.on('stop-sharing-notification'), src/server.js only
StopSharingNotification(s) ==
    /\ variant = "server"
    /\ Relay("stop-sharing-notification", s, Undefined, Undefined, Undefined,
             Undefined,
             IF Truthy(sockets[s].roomCode)
             THEN << Emit("share-stopped", sockets[s].roomCode,
                          SocketTo(joined, sockets[s].roomCode, s), Undefined,
                          Undefined, Undefined, NoList, Undefined),
                     Emit("update-user-list", sockets[s].roomCode,
                          IoTo(joined, sockets[s].roomCode), Undefined,
                          Undefined, Undefined,
                          RoomsGet(rooms, sockets[s].roomCode), Undefined) >>
             ELSE << >>)

\* socket.on('stop-sharing'), src/unnamed/part_000 only
StopSharing(s, room) ==
    /\ variant = "part000"
    /\ Relay("stop-sharing", s, room, Undefined, Undefined, Undefined,
             IF Truthy(room) /\ RoomsTruthy(rooms, room)
             THEN << Emit("share-stopped", room, IoTo(joined, room),
                          Undefined, Undefined, Undefined, NoList,
                          Undefined) >>
             ELSE << >>)

\* socket.on('request-control')
RequestControl(s, targetId) ==
    Relay("request-control", s, Undefined, targetId, Undefined, Undefined,
          << Emit("control-request-received", targetId,
                  IoTo(joined, targetId), s, sockets[s].username, Undefined,
                  NoList, Undefined) >>)

\* socket.on('accept-control')
AcceptControl(s, requesterId) ==
    Relay("accept-control", s, Undefined, requesterId, Undefined, Undefined,
          << Emit("control-accepted", requesterId, IoTo(joined, requesterId),
                  s, Undefined, Undefined, NoList, Undefined) >>)

\* socket.on('reject-control')
RejectControl(s, requesterId) ==
    Relay("reject-control", s, Undefined, requesterId, Undefined, Undefined,
          IF SocketsGet(requesterId) # {}
          THEN << Emit("control-rejected", requesterId,
                       SocketsGet(requesterId), Undefined,
                       sockets[s].username, Undefined, NoList, Undefined) >>
          ELSE << >>)

\* the sender id the webrtc-offer handler forwards
OfferFrom(v, s, fromId) == IF v = "server" THEN fromId ELSE s

\* socket.on('webrtc-offer')
WebrtcOffer(s, offer, toId, fromId) ==
    Relay("webrtc-offer", s, Undefined, toId, fromId, offer,
          (IF variant = "server" /\ Truthy(sockets[s].roomCode)
           THEN << Emit("sharer-started", sockets[s].roomCode,
                        IoTo(joined, sockets[s].roomCode),
                        OfferFrom(variant, s, fromId), Undefined, Undefined,
                        NoList, Undefined) >>
           ELSE << >>)
          \o << Emit("webrtc-offer", toId, IoTo(joined, toId),
                     OfferFrom(variant, s, fromId), Undefined, Undefined,
                     NoList, offer) >>)

\* socket.on('webrtc-answer')
WebrtcAnswer(s, answer, toId) ==
    Relay("webrtc-answer", s, Undefined, toId, Undefined, answer,
          << Emit("webrtc-answer", toId, IoTo(joined, toId), s, Undefined,
                  Undefined, NoList, answer) >>)

\* socket.on('webrtc-candidate')
WebrtcCandidate(s, candidate, toId) ==
    Relay("webrtc-candidate", s, Undefined, toId, Undefined, candidate,
          << Emit("webrtc-candidate", toId, IoTo(joined, toId), s, Undefined,
                  Undefined, NoList, candidate) >>)

\* socket.on('send-chat-message')
SendChatMessage(s, message) ==
    Relay("send-chat-message", s, Undefined, Undefined, Undefined, message,
          IF Truthy(sockets[s].roomCode) /\ Truthy(sockets[s].username)
          THEN << Emit("new-chat-message", sockets[s].roomCode,
                       IoTo(joined, sockets[s].roomCode), Undefined,
                       sockets[s].username, Undefined, NoList, message) >>
          ELSE << >>)

\* an event of PayloadOps sent without a payload object: destructuring
\* the undefined parameter throws a TypeError before the body runs
MissingPayload(s, op) ==
    /\ Idle
    /\ Open(s)
    /\ op = "stop-sharing" => variant = "part000"
    /\ crashed' = TRUE
    /\ out' = << >>
    /\ last' = Event(op, s, Undefined, Undefined, Undefined, Undefined,
                     Missing)
    /\ UNCHANGED <<variant, rooms, sockets, joined>>

\* ------------------------------------------------------- specifications
Next ==
    \/ Settle
    \/ \E s \in SocketIds : Connection(s)
    \/ \E s \in SocketIds, n \in Names, c \in Codes : CreateRoom(s, n, c)
    \/ \E s \in SocketIds, c \in JoinCodes, n \in Names : JoinRoom(s, c, n)
    \/ \E s \in SocketIds : Disconnect(s)

Spec == Init /\ [][Next]_vars

NextRelay ==
    \/ Settle
    \/ \E s \in SocketIds : Connection(s)
    \/ \E s \in SocketIds, n \in Names, c \in RelayCodes : CreateRoom(s, n, c)
    \/ \E s \in SocketIds, c \in RelayCodes, n \in Names : JoinRoom(s, c, n)
    \/ \E s \in SocketIds : Disconnect(s)
    \/ \E s \in SocketIds, t \in TargetIds : RequestShare(s, t)
    \/ \E s \in SocketIds, t \in TargetIds : RejectShare(s, t)
    \/ \E s \in SocketIds : StopSharingNotification(s)
    \/ \E s \in SocketIds, c \in RelayCodes \cup ProtoKeys : StopSharing(s, c)
    \/ \E s \in SocketIds, t \in TargetIds : RequestControl(s, t)
    \/ \E s \in SocketIds, t \in TargetIds : AcceptControl(s, t)
    \/ \E s \in SocketIds, t \in TargetIds : RejectControl(s, t)
    \/ \E s \in SocketIds, p \in Payloads, t \in TargetIds, f \in FromIds :
          WebrtcOffer(s, p, t, f)
    \/ \E s \in SocketIds, p \in Payloads, t \in TargetIds :
          WebrtcAnswer(s, p, t)
    \/ \E s \in SocketIds, p \in Payloads, t \in TargetIds :
          WebrtcCandidate(s, p, t)
    \/ \E s \in SocketIds, p \in Payloads : SendChatMessage(s, p)

SpecRelay == Init /\ [][NextRelay]_vars

NextChat ==
    \/ Settle
    \/ \E s \in SocketIds : Connection(s)
    \/ \E s \in SocketIds, n \in ChatNames, c \in RelayCodes :
          CreateRoom(s, n, c)
    \/ \E s \in SocketIds, c \in RelayCodes, n \in ChatNames :
          JoinRoom(s, c, n)
    \/ \E s \in SocketIds : Disconnect(s)
    \/ \E s \in SocketIds, p \in Payloads : SendChatMessage(s, p)

SpecChat == Init /\ [][NextChat]_vars

NextPayload ==
    \/ Settle
    \/ \E s \in SocketIds : Connection(s)
    \/ \E s \in SocketIds, n \in PayloadNames, c \in RelayCodes :
          CreateRoom(s, n, c)
    \/ \E s \in SocketIds, c \in RelayCodes \cup {Undefined},
          n \in PayloadNames : JoinRoom(s, c, n)
    \/ \E s \in SocketIds : Disconnect(s)
    \/ \E s \in SocketIds, op \in PayloadOps : MissingPayload(s, op)
    \/ \E s \in SocketIds : RequestShare(s, Undefined)
    \/ \E s \in SocketIds : RejectShare(s, Undefined)
    \/ \E s \in SocketIds : RequestControl(s, Undefined)
    \/ \E s \in SocketIds : AcceptControl(s, Undefined)
    \/ \E s \in SocketIds : RejectControl(s, Undefined)
    \/ \E s \in SocketIds, p \in Payloads, f \in FromIds :
          WebrtcOffer(s, p, Undefined, f)
    \/ \E s \in SocketIds, p \in Payloads : WebrtcAnswer(s, p, Undefined)
    \/ \E s \in SocketIds, p \in Payloads : WebrtcCandidate(s, p, Undefined)

SpecPayload == Init /\ [][NextPayload]_vars

\* --------------------------------------------------------------- claims
\* socket s is sent event ev among the emissions o
Receives(o, s, ev) == \E i \in 1..Len(o) : o[i].ev = ev /\ s \in o[i].to

\* the connected sockets whose id is in the member list of room r
LiveMembers(rms, sks, r) ==
    {s \in SocketIds : sks[s].status = "open" /\ s \in Ids(RoomsGet(rms, r))}

\* relayed events that name their sender
SenderEvents ==
    {"webrtc-offer", "webrtc-answer", "webrtc-candidate",
     "share-request-received", "control-request-received", "share-rejected",
     "control-accepted", "sharer-started"}

\* events addressed to one target
UnicastEvents ==
    {"webrtc-offer", "webrtc-answer", "webrtc-candidate", "control-accepted",
     "control-rejected", "share-request-received",
     "control-request-received", "share-rejected"}

\* events addressed to a room
BroadcastEvents == {"update-user-list", "new-chat-message"}

\* C1: after every handler, every room code in the store maps to a member
\* list with at least one entry.
NoEmptyRoom == \A r \in DOMAIN rooms : Len(rooms[r]) >= 1

\* C1 witness: a disconnect has just emptied and deleted the socket's room
\* (it announced the leaver and sent no member list) while another room is
\* still in the store.
LastMemberLeft ==
    /\ last.op = "disconnect"
    /\ out # << >>
    /\ \A i \in 1..Len(out) : out[i].ev # "update-user-list"
    /\ DOMAIN rooms # {}

\* C2: every connection id is in the member list of at most one room.
AtMostOneRoom ==
    \A s \in SocketIds :
        Cardinality({r \in DOMAIN rooms : s \in Ids(rooms[r])}) <= 1

\* C3: once a connection's disconnect handler has run, its id is in no
\* room's member list.
NoStaleMember ==
    \A s \in SocketIds :
        sockets[s].status = "closed" =>
            \A r \in DOMAIN rooms : s \notin Ids(rooms[r])

\* C4: a disconnect that leaves a room of the leaver without a connected
\* member removes that room, and a join-room for a code that has no
\* connected member is answered with join-error.
LastLeaveRemovesRoom ==
    [][ /\ last'.op = "disconnect" =>
            \A r \in DOMAIN rooms \cap DOMAIN rooms' :
                last'.by \in Ids(rooms[r]) =>
                    LiveMembers(rooms', sockets', r) # {}
        /\ (last'.op = "join-room" /\ last'.code \in Codes
              /\ LiveMembers(rooms, sockets, last'.code) = {}) =>
            Receives(out', last'.by, "join-error") ]_vars

\* C5: every relayed event that names its sender carries the id of the
\* socket that sent the triggering event, whatever the client put in the
\* payload.
SenderIsSocket ==
    \A i \in 1..Len(out) :
        out[i].ev \in SenderEvents => out[i].id = last.by

\* C6: a unicast event is received by no socket other than the one whose
\* id is the target identifier of the payload.
UnicastToTargetOnly ==
    \A i \in 1..Len(out) :
        out[i].ev \in UnicastEvents => out[i].to \subseteq {last.target}

\* C7: a broadcast event emitted for room R is received by exactly the
\* connected sockets whose ids are in R's member list at the emission.
BroadcastToMembers ==
    \A i \in 1..Len(out) :
        out[i].ev \in BroadcastEvents =>
            out[i].to = LiveMembers(rooms, sockets, out[i].room)

\* C8: create-room never allocates a code that is already the code of a
\* room in the store.
CreateAllocatesFreshCode ==
    [][ last'.op = "create-room" => last'.code \notin DOMAIN rooms ]_vars

\* C9: a join-room whose code is not in the store sends join-error to the
\* sender only and changes neither the store nor any session.
UnknownJoinRejected ==
    [][ (last'.op = "join-room" /\ last'.code \notin DOMAIN rooms) =>
            /\ rooms' = rooms
            /\ sockets' = sockets
            /\ joined' = joined
            /\ Len(out') = 1
            /\ out'[1].ev = "join-error"
            /\ out'[1].to = {last'.by} ]_vars

\* C10: in src/server.js a join-room by B for an existing room R appends B
\* to the end of R's list, sends joined-room with R's code to B only,
\* update-user-list with the new list to every connected member of R, B
\* included, and user-joined to every connected member other than B and
\* never to B.
JoinAppendsAndNotifies ==
    [][ (variant = "server" /\ last'.op = "join-room"
           /\ last'.code \in DOMAIN rooms) =>
            LET b == last'.by
                r == last'.code
            IN  /\ rooms'[r] = Append(rooms[r], User(b, last'.name))
                /\ \A s \in SocketIds :
                       Receives(out', s, "joined-room") <=> s = b
                /\ \A i \in 1..Len(out') :
                       out'[i].ev = "joined-room" => out'[i].code = r
                /\ \A i \in 1..Len(out') :
                       out'[i].ev = "update-user-list" =>
                           out'[i].list = rooms'[r]
                /\ \A s \in LiveMembers(rooms', sockets', r) :
                       /\ Receives(out', s, "update-user-list")
                       /\ s # b => Receives(out', s, "user-joined")
                /\ ~Receives(out', b, "user-joined") ]_vars

\* C10 witness: under src/server.js a third socket has joined a room whose
\* two earlier members are still connected.
ThirdMemberJoined ==
    /\ variant = "server"
    /\ last.op = "join-room"
    /\ last.code \in DOMAIN rooms
    /\ Len(rooms[last.code]) = 3
    /\ Cardinality(LiveMembers(rooms, sockets, last.code)) = 3
    /\ rooms[last.code][3].id = last.by

\* the emissions of event ev among o that socket s receives
Received(o, s, ev) == {i \in 1..Len(o) : o[i].ev = ev /\ s \in o[i].to}

\* C11: when a member of room R disconnects and other members remain, R
\* stays in the store with the leaver filtered out and every remaining
\* connected member receives exactly one update-user-list, carrying that
\* list, and exactly one share-stopped; when the disconnect deletes a room,
\* no connection receives any event.
DisconnectNotifiesSurvivors ==
    [][ last'.op = "disconnect" =>
          /\ \A r \in DOMAIN rooms :
               (/\ last'.by \in Ids(rooms[r])
                /\ FilterOut(rooms[r], last'.by) # << >>) =>
                   /\ r \in DOMAIN rooms'
                   /\ RoomsGet(rooms', r) = FilterOut(rooms[r], last'.by)
                   /\ \A s \in LiveMembers(rooms', sockets', r) :
                        /\ Cardinality(Received(out', s, "update-user-list")) = 1
                        /\ \A i \in Received(out', s, "update-user-list") :
                               out'[i].list = FilterOut(rooms[r], last'.by)
                        /\ Cardinality(Received(out', s, "share-stopped")) = 1
          /\ DOMAIN rooms' # DOMAIN rooms =>
               \A i \in 1..Len(out') : out'[i].to = {} ]_vars

\* the chat message delivered for the send-chat-message just handled
ChatDelivered ==
    /\ Len(out) = 1
    /\ out[1].ev = "new-chat-message"
    /\ out[1].name = sockets[last.by].username
    /\ out[1].body = last.body
    /\ last.by \in out[1].to
    /\ LiveMembers(rooms, sockets, sockets[last.by].roomCode)
           \subseteq out[1].to

\* C12: a send-chat-message from a connection that is in a room
\* delivers new-chat-message with its display name and the message to all
\* members of its room, the sender included, for every display name; from
\* a connection in no room it delivers nothing.
ChatForEveryName ==
    last.op = "send-chat-message" =>
        IF Truthy(sockets[last.by].roomCode)
        THEN ChatDelivered
        ELSE out = << >>

\* C12, what the handler does instead: the message is delivered when the
\* sender is in a room and has a non-empty display name; otherwise nothing
\* is delivered.
ChatForNamedSender ==
    last.op = "send-chat-message" =>
        IF Truthy(sockets[last.by].roomCode)
             /\ Truthy(sockets[last.by].username)
        THEN ChatDelivered
        ELSE out = << >>

\* C12, the delivering case: a named member's chat message has reached a
\* room of three connected members, one of which joined with the empty
\* name.
ChatReachedRoom ==
    /\ last.op = "send-chat-message"
    /\ Len(out) = 1
    /\ Cardinality(out[1].to) = 3
    /\ \E s \in out[1].to : sockets[s].username = ""

\* the inbound events that are relayed
RelayOps ==
    {"request-share", "reject-share", "stop-sharing-notification",
     "stop-sharing", "request-control", "accept-control", "reject-control",
     "webrtc-offer", "webrtc-answer", "webrtc-candidate",
     "send-chat-message"}

\* C13: a relay event leaves the room store, every socket's session and
\* the Socket.IO rooms as they were, for every payload and sender.
RelayLeavesStateAlone ==
    [][ last'.op \in RelayOps =>
            /\ rooms' = rooms
            /\ sockets' = sockets
            /\ joined' = joined ]_vars

\* C13 witness: a relay event of a socket that is in a room has been
\* delivered to another socket while the store holds a room.
RelayDelivered ==
    /\ last.op \in RelayOps
    /\ Truthy(sockets[last.by].roomCode)
    /\ DOMAIN rooms # {}
    /\ \E i \in 1..Len(out) : out[i].to \ {last.by} # {}

\* C14: a request-share from a sender that is in a room delivers
\* share-request-received, with the sender's id and display name, to the
\* named target and to no one else; from a sender that is in no room it
\* delivers nothing.
ShareRequestNeedsRoom ==
    last.op = "request-share" =>
        IF Truthy(sockets[last.by].roomCode)
        THEN /\ Len(out) = 1
             /\ out[1].ev = "share-request-received"
             /\ out[1].id = last.by
             /\ out[1].name = sockets[last.by].username
             /\ SocketsGet(last.target) \subseteq out[1].to
             /\ out[1].to \subseteq {last.target}
        ELSE \A i \in 1..Len(out) : out[i].to = {}

\* the inbound events that carry a target id
UnicastOps ==
    {"request-share", "reject-share", "request-control", "accept-control",
     "reject-control", "webrtc-offer", "webrtc-answer", "webrtc-candidate"}

\* C15: a unicast event whose target id is not the id of a connected
\* socket is dropped: no socket receives anything and the store is
\* unchanged.
UnknownTargetDropped ==
    [][ (last'.op \in UnicastOps /\ SocketsGet(last'.target) = {}) =>
            /\ \A i \in 1..Len(out') : out'[i].to = {}
            /\ rooms' = rooms ]_vars

\* the events that may cause share-stopped
StopOps == {"stop-sharing", "stop-sharing-notification", "disconnect"}

\* C17: share-stopped is delivered to the sockets of room R only by a
\* stop-sharing event or a disconnect of a connection whose id is in R's
\* member list.
ShareStoppedFromMembersOnly ==
    [][ \A i \in 1..Len(out') :
            (out'[i].ev = "share-stopped" /\ out'[i].to # {}) =>
                /\ last'.op \in StopOps
                /\ last'.by \in Ids(RoomsGet(rooms, out'[i].room)) ]_vars

\* the last update-user-list among o that socket s receives (0: none)
LastListIndex(o, s) ==
    IF Received(o, s, "update-user-list") = {} THEN 0
    ELSE CHOOSE i \in Received(o, s, "update-user-list") :
             \A j \in Received(o, s, "update-user-list") : j <= i

\* C18: the most recent update-user-list a connected socket has received
\* carries the current member list of the room its session records; stated
\* for the sockets that received one from the handler that just ran.
ViewIsSessionRoom ==
    \A s \in SocketIds :
        (Open(s) /\ Truthy(sockets[s].roomCode) /\ LastListIndex(out, s) # 0)
            => out[LastListIndex(out, s)].list
                   = RoomsGet(rooms, sockets[s].roomCode)

\* C19: for every connected socket whose session records room code R, R is
\* in the store and its member list contains the socket's id.
SessionInStore ==
    \A s \in SocketIds :
        (Open(s) /\ Truthy(sockets[s].roomCode)) =>
            /\ sockets[s].roomCode \in DOMAIN rooms
            /\ s \in Ids(rooms[sockets[s].roomCode])

\* C20: no member list holds the same connection id twice.
NoDuplicateMember ==
    \A r \in DOMAIN rooms :
        \A i, j \in 1..Len(rooms[r]) :
            i # j => rooms[r][i].id # rooms[r][j].id

\* an inbound event that lacks a required payload field or its payload
Malformed(e) ==
    \/ e.body = Missing
    \/ e.op \in {"create-room", "join-room"} /\ e.name = Undefined
    \/ e.op = "join-room" /\ e.code = Undefined
    \/ e.op \in UnicastOps /\ e.target = Undefined

\* C16: an inbound event that lacks a required payload field, or has no
\* payload at all, is ignored: the handler does not fail and the room
\* store is the same after the event as before (no room created, no
\* member added).
MalformedIgnored ==
    [][ Malformed(last') => (~crashed' /\ rooms' = rooms) ]_vars

====
